---------------------------- MODULE Spec2Model ----------------------------
(***************************************************************************)
(* Convex hull builders of src/geometry: graham_scan (sort and sweep) and  *)
(* jarvis_march (gift wrapping).  A caller hands one sequence of points to *)
(* graham_scan and then to jarvis_march; each builder is modelled loop     *)
(* iteration by loop iteration.  Afterwards the caller may call both again *)
(* on a shuffled copy of the input or on a hull that was returned.         *)
(*                                                                         *)
(* Coordinates are small integers, on which the float arithmetic of the    *)
(* source is exact.  Python indexes from 0, the sequences here from 1:     *)
(* an index i of the source is i + 1 here.                                 *)
(***************************************************************************)
EXTENDS Integers, Sequences, FiniteSets

\* Largest coordinate of an input point (coordinates are 0..MaxCoord).
MaxCoord == 2

\* Longest input sequence of the first call.
MaxLen == 4

\* Longest input sequence of the runs that call each builder once.
LongLen == 5

Coord == 0..MaxCoord

PointT == [x : Coord, y : Coord]

VARIABLES
    points,         \* the argument `points` of the running call
    pc,             \* position of the caller / of the running builder;
                    \* "mutated" once the caller has changed an input Point
    min_point,      \* graham_scan: index in points of the pivot object
    points_list,    \* graham_scan: indices of the other points, sorted
    g_pos,          \* graham_scan: position in points_list of the for loop
    g_hull,         \* graham_scan: the stack convex_hull (indices in points)
    g_result,       \* graham_scan: the returned list (indices in points)
    left_point_idx, \* jarvis_march: index of the start vertex
    current_idx,    \* jarvis_march: index of the current vertex
    j_hull,         \* jarvis_march: the list convex_hull (new Point values)
    j_iter,         \* jarvis_march: iterations of `while True` that went on
    j_result,       \* jarvis_march: the returned list
    call,           \* "first", "permuted", "fed_graham" or "fed_jarvis"
    first_points,   \* the argument of the first call
    first_g,        \* coordinates of what graham_scan returned first
    first_j         \* what jarvis_march returned first

vars == <<points, pc, min_point, points_list, g_pos, g_hull, g_result,
          left_point_idx, current_idx, j_hull, j_iter, j_result,
          call, first_points, first_g, first_j>>

gvars == <<min_point, points_list, g_pos, g_hull, g_result>>

jvars == <<left_point_idx, current_idx, j_hull, j_iter, j_result>>

cvars == <<call, first_points, first_g, first_j>>

-----------------------------------------------------------------------------
(* Helpers on sequences *)

Last(s) == s[Len(s)]

Front(s) == SubSeq(s, 1, Len(s) - 1)

Range(s) == {s[i] : i \in DOMAIN s}

Min2(a, b) == IF a <= b THEN a ELSE b

Max2(a, b) == IF a >= b THEN a ELSE b

-----------------------------------------------------------------------------
(* graham_scan.py *)

\* Point.__lt__: bottom-most, then left-most.
PointLt(p, q) == IF p.y = q.y THEN p.x < q.x ELSE p.y < q.y

\* Point.euclidean_distance, squared.  The source takes the square root
\* (** 0.5) and only ever compares two distances; on the integers of the
\* model the root is strictly increasing, so the squares compare alike.
euclidean_distance_sq(p, q) ==
    (p.x - q.x) * (p.x - q.x) + (p.y - q.y) * (p.y - q.y)

\* Point.consecutive_orientation: cross product of (self -> a) and (a -> b).
consecutive_orientation(self, point_a, point_b) ==
    (point_a.x - self.x) * (point_b.y - point_a.y)
        - (point_a.y - self.y) * (point_b.x - point_a.x)

\* min(points): the index of the first smallest element.
RECURSIVE MinFrom(_, _, _)
MinFrom(pts, best, i) ==
    IF i > Len(pts) THEN best
    ELSE MinFrom(pts, IF PointLt(pts[i], pts[best]) THEN i ELSE best, i + 1)

MinIndex(pts) == MinFrom(pts, 1, 2)

\* [p for p in points if p != min_point], as indices in points.
RECURSIVE OthersFrom(_, _, _)
OthersFrom(pts, m, i) ==
    IF i > Len(pts) THEN <<>>
    ELSE (IF pts[i] # pts[m] THEN <<i>> ELSE <<>>) \o OthersFrom(pts, m, i + 1)

Others(pts, m) == OthersFrom(pts, m, 1)

\* compare_points: -1 when point_a sorts before point_b.
compare_points(minp, point_a, point_b) ==
    LET orientation == consecutive_orientation(minp, point_a, point_b)
        dist_a == euclidean_distance_sq(minp, point_a)
        dist_b == euclidean_distance_sq(minp, point_b)
    IN  IF orientation < 0 THEN 1
        ELSE IF orientation > 0 THEN -1
        ELSE IF dist_b < dist_a THEN -1
        ELSE IF dist_b > dist_a THEN 1
        ELSE 0

\* list.sort(key=cmp_to_key(compare_points)): a stable sort; an element goes
\* behind every element that does not sort after it.
RECURSIVE InsertSorted(_, _, _, _)
InsertSorted(pts, m, sorted, e) ==
    IF sorted = <<>> THEN <<e>>
    ELSE IF compare_points(pts[m], pts[e], pts[Last(sorted)]) < 0
         THEN Append(InsertSorted(pts, m, Front(sorted), e), Last(sorted))
         ELSE Append(sorted, e)

RECURSIVE SortFrom(_, _, _, _)
SortFrom(pts, m, list, sorted) ==
    IF list = <<>> THEN sorted
    ELSE SortFrom(pts, m, Tail(list), InsertSorted(pts, m, sorted, Head(list)))

SortByAngle(pts, m, list) == SortFrom(pts, m, list, <<>>)

\* The test that skips a point at the polar angle of the stack's top.
SkipPoint(pts, m, hull, p) ==
    consecutive_orientation(pts[m], pts[p], pts[Last(hull)]) = 0

\* The pop test with < for <=: a top that is collinear with its neighbours
\* stays on the stack.
PopTestStrict(second, top, point) ==
    consecutive_orientation(second, top, point) < 0

\* The test of the pop loop: the top makes no strict left turn to `point`.
PopTest(second, top, point) ==
    consecutive_orientation(second, top, point) <= 0

\* while len(convex_hull) >= 2: pop while the last three make no left turn.
RECURSIVE PopLoop(_, _, _)
PopLoop(pts, hull, p) ==
    IF Len(hull) >= 2
       /\ PopTest(pts[hull[Len(hull) - 1]], pts[Last(hull)], pts[p])
    THEN PopLoop(pts, Front(hull), p)
    ELSE hull

\* The iteration without its pop loop: every point that is not skipped is
\* pushed on the stack as it is.
SweepStepNoPop(pts, m, hull, p) ==
    IF SkipPoint(pts, m, hull, p) THEN hull
    ELSE Append(hull, p)

\* One iteration of `for point in points_list[1:]`.
SweepStep(pts, m, hull, p) ==
    IF SkipPoint(pts, m, hull, p) THEN hull
    ELSE Append(PopLoop(pts, hull, p), p)

\* The final length test with < for <=: a stack of 2 is returned.
GrahamFinalShort(hull) == IF Len(hull) < 2 THEN <<>> ELSE hull

\* The final length test: fewer than 3 vertices is no hull.
GrahamFinal(hull) == IF Len(hull) <= 2 THEN <<>> ELSE hull

\* Coordinates of a list of point objects given by index.
CoordsOf(pts, idxs) == [k \in DOMAIN idxs |-> pts[idxs[k]]]

-----------------------------------------------------------------------------
(* jarvis_march.py *)

\* _cross_product: cross product of (origin -> a) and (origin -> b).
cross_product(origin, point_a, point_b) ==
    (point_a.x - origin.x) * (point_b.y - origin.y)
        - (point_a.y - origin.y) * (point_b.x - origin.x)

\* _is_point_on_segment: `point` is collinear with p1 and p2 and lies in
\* their bounding box.  On integers abs(cross) > 1e-9 is cross # 0.
is_point_on_segment(p1, p2, point) ==
    LET cross == (point.y - p1.y) * (p2.x - p1.x)
                     - (point.x - p1.x) * (p2.y - p1.y)
    IN  IF cross # 0 THEN FALSE
        ELSE /\ Min2(p1.x, p2.x) <= point.x /\ point.x <= Max2(p1.x, p2.x)
             /\ Min2(p1.y, p2.y) <= point.y /\ point.y <= Max2(p1.y, p2.y)

\* The test that makes points[i] the new start vertex: further left, or as
\* far left and lower.
LeftTest(p, best) == p.x < best.x \/ (p.x = best.x /\ p.y < best.y)

\* The loop that finds the leftmost point (bottom-most in case of a tie).
RECURSIVE LeftFrom(_, _, _)
LeftFrom(pts, best, i) ==
    IF i > Len(pts) THEN best
    ELSE LeftFrom(pts, IF LeftTest(pts[i], pts[best]) THEN i ELSE best, i + 1)

LeftIndex(pts) == LeftFrom(pts, 1, 2)

\* The test that replaces the candidate next_idx by i.
NextTest(cur, cand, nxt) == cross_product(cur, cand, nxt) > 0

\* for i in range(len(points)): the search of the next vertex.
RECURSIVE NextFrom(_, _, _, _)
NextFrom(pts, cur, nxt, i) ==
    IF i > Len(pts) THEN nxt
    ELSE NextFrom(pts, cur,
                  IF NextTest(pts[cur], pts[i], pts[nxt]) THEN i ELSE nxt,
                  i + 1)

\* next_idx = (current_idx + 1) % len(points), then the search.
NextIndex(pts, cur) == NextFrom(pts, cur, (cur % Len(pts)) + 1, 1)

\* The hull after the vertex `p` was selected: the last vertex is
\* overwritten when p lies on the segment of the last two, else p is appended.
WrapAdd(hull, p) ==
    IF Len(hull) > 1 /\ is_point_on_segment(hull[Len(hull) - 1], Last(hull), p)
    THEN [hull EXCEPT ![Len(hull)] = p]
    ELSE Append(hull, p)

\* What follows the loop: the length tests and the drop of a last vertex
\* that has the first vertex on the segment behind it.
JarvisFinal(hull) ==
    IF Len(hull) <= 2 THEN <<>>
    ELSE IF is_point_on_segment(hull[Len(hull) - 1], Last(hull), hull[1])
         THEN (IF Len(hull) - 1 = 2 THEN <<>> ELSE Front(hull))
         ELSE hull

-----------------------------------------------------------------------------
(* The calls *)

Init ==
    /\ \E n \in 0..MaxLen : points \in [1..n -> PointT]
    /\ pc = "g_start"
    /\ min_point = 0
    /\ points_list = <<>>
    /\ g_pos = 0
    /\ g_hull = <<>>
    /\ g_result = <<>>
    /\ left_point_idx = 0
    /\ current_idx = 0
    /\ j_hull = <<>>
    /\ j_iter = 0
    /\ j_result = <<>>
    /\ call = "first"
    /\ first_points = points
    /\ first_g = <<>>
    /\ first_j = <<>>

\* graham_scan up to the start of the sweep.
GrahamStart ==
    /\ pc = "g_start"
    /\ IF Len(points) <= 2
       THEN /\ pc' = "j_start"
            /\ g_result' = <<>>
            /\ UNCHANGED <<min_point, points_list, g_pos, g_hull>>
       ELSE LET m == MinIndex(points)
                rest == Others(points, m)
                sorted == SortByAngle(points, m, rest)
            IN  IF rest = <<>>
                THEN /\ pc' = "j_start"
                     /\ g_result' = <<>>
                     /\ min_point' = m
                     /\ UNCHANGED <<points_list, g_pos, g_hull>>
                ELSE /\ pc' = "g_sweep"
                     /\ min_point' = m
                     /\ points_list' = sorted
                     /\ g_hull' = <<m, sorted[1]>>
                     /\ g_pos' = 2
                     /\ UNCHANGED g_result
    /\ UNCHANGED <<points, jvars, cvars>>

\* One iteration of the sweep.
GrahamSweep ==
    /\ pc = "g_sweep"
    /\ g_pos <= Len(points_list)
    /\ g_hull' = SweepStep(points, min_point, g_hull, points_list[g_pos])
    /\ g_pos' = g_pos + 1
    /\ UNCHANGED <<points, pc, min_point, points_list, g_result, jvars, cvars>>

\* The sweep is over: graham_scan returns.
GrahamReturn ==
    /\ pc = "g_sweep"
    /\ g_pos > Len(points_list)
    /\ g_result' = GrahamFinal(g_hull)
    /\ pc' = "j_start"
    /\ UNCHANGED <<points, min_point, points_list, g_pos, g_hull, jvars, cvars>>

\* jarvis_march up to the start of the wrapping loop.
JarvisStart ==
    /\ pc = "j_start"
    /\ IF Len(points) <= 2
       THEN /\ pc' = "done"
            /\ j_result' = <<>>
            /\ UNCHANGED <<left_point_idx, current_idx, j_hull, j_iter>>
       ELSE LET l == LeftIndex(points)
            IN  /\ pc' = "j_wrap"
                /\ left_point_idx' = l
                /\ current_idx' = l
                /\ j_hull' = <<points[l]>>
                /\ j_iter' = 0
                /\ UNCHANGED j_result
    /\ UNCHANGED <<points, gvars, cvars>>

\* One iteration of `while True`.
JarvisWrap ==
    /\ pc = "j_wrap"
    /\ j_iter < Len(points)
    /\ LET next_idx == NextIndex(points, current_idx)
       IN  IF next_idx = left_point_idx
           THEN /\ pc' = "j_return"
                /\ UNCHANGED <<current_idx, j_hull, j_iter>>
           ELSE /\ current_idx' = next_idx
                /\ j_hull' = WrapAdd(j_hull, points[next_idx])
                /\ j_iter' = j_iter + 1
                /\ UNCHANGED pc
    /\ UNCHANGED <<points, gvars, left_point_idx, j_result, cvars>>

\* The loop went on len(points) times without selecting the start vertex.
\* The selection depends on current_idx alone, so an index was selected
\* twice and the loop repeats from there for ever: no return.
JarvisDiverge ==
    /\ pc = "j_wrap"
    /\ j_iter >= Len(points)
    /\ pc' = "j_diverged"
    /\ UNCHANGED <<points, gvars, jvars, cvars>>

\* The loop is left: jarvis_march returns.
JarvisReturn ==
    /\ pc = "j_return"
    /\ j_result' = JarvisFinal(j_hull)
    /\ pc' = "done"
    /\ UNCHANGED <<points, gvars, left_point_idx, current_idx, j_hull, j_iter,
                   cvars>>

\* The input with the elements at i and j exchanged.
Swap(pts, i, j) == [pts EXCEPT ![i] = pts[j], ![j] = pts[i]]

\* The state in which a new call of both builders on `pts` starts.
Restart(pts, kind) ==
    /\ points' = pts
    /\ pc' = "g_start"
    /\ min_point' = 0
    /\ points_list' = <<>>
    /\ g_pos' = 0
    /\ g_hull' = <<>>
    /\ g_result' = <<>>
    /\ left_point_idx' = 0
    /\ current_idx' = 0
    /\ j_hull' = <<>>
    /\ j_iter' = 0
    /\ j_result' = <<>>
    /\ call' = kind
    /\ first_points' = points
    /\ first_g' = CoordsOf(points, g_result)
    /\ first_j' = j_result

\* The caller calls again on a shuffled copy of the input.
CallPermuted ==
    /\ pc = "done"
    /\ call = "first"
    /\ \E i, j \in DOMAIN points : i < j /\ Restart(Swap(points, i, j), "permuted")

\* The caller hands graham_scan's hull back to the builders.
CallOnGrahamHull ==
    /\ pc = "done"
    /\ call = "first"
    /\ g_result # <<>>
    /\ Restart(CoordsOf(points, g_result), "fed_graham")

\* The caller hands jarvis_march's hull back to the builders.
CallOnJarvisHull ==
    /\ pc = "done"
    /\ call = "first"
    /\ j_result # <<>>
    /\ Restart(j_result, "fed_jarvis")

\* After both calls the caller assigns new coordinates to one of the Point
\* objects of its input.  graham_scan's list refers to Point objects by
\* index in points, so it shows an object's new coordinates; jarvis_march's
\* list holds Point values of its own.  first_g and first_j keep the
\* coordinates of the two lists as they were returned.
CallerMovesPoint ==
    /\ pc = "done"
    /\ call = "first"
    /\ \E i \in DOMAIN points : \E q \in PointT :
          /\ q # points[i]
          /\ points' = [points EXCEPT ![i] = q]
    /\ pc' = "mutated"
    /\ first_g' = CoordsOf(points, g_result)
    /\ first_j' = j_result
    /\ UNCHANGED <<gvars, jvars, call, first_points>>

Next ==
    \/ GrahamStart
    \/ GrahamSweep
    \/ GrahamReturn
    \/ JarvisStart
    \/ JarvisWrap
    \/ JarvisDiverge
    \/ JarvisReturn
    \/ CallPermuted
    \/ CallOnGrahamHull
    \/ CallOnJarvisHull
    \/ CallerMovesPoint

Spec == Init /\ [][Next]_vars

\* graham_scan alone.
NextGraham ==
    \/ GrahamStart
    \/ GrahamSweep
    \/ GrahamReturn

SpecGraham == Init /\ [][NextGraham]_vars

\* graham_scan alone, for what holds during the sweep.
SpecSweep == Init /\ [][NextGraham]_vars

\* One call of each builder, on inputs of up to LongLen points.
InitLong ==
    /\ \E n \in 0..LongLen : points \in [1..n -> PointT]
    /\ pc = "g_start"
    /\ min_point = 0
    /\ points_list = <<>>
    /\ g_pos = 0
    /\ g_hull = <<>>
    /\ g_result = <<>>
    /\ left_point_idx = 0
    /\ current_idx = 0
    /\ j_hull = <<>>
    /\ j_iter = 0
    /\ j_result = <<>>
    /\ call = "first"
    /\ first_points = points
    /\ first_g = <<>>
    /\ first_j = <<>>

NextBuild ==
    \/ GrahamStart
    \/ GrahamSweep
    \/ GrahamReturn
    \/ JarvisStart
    \/ JarvisWrap
    \/ JarvisDiverge
    \/ JarvisReturn

SpecLong == InitLong /\ [][NextBuild]_vars

TypeOK ==
    /\ pc \in {"g_start", "g_sweep", "j_start", "j_wrap", "j_return",
               "j_diverged", "done", "mutated"}
    /\ call \in {"first", "permuted", "fed_graham", "fed_jarvis"}

-----------------------------------------------------------------------------
(* Geometry of the claims, independent of either builder *)

\* Twice the signed area of the triangle a, b, c: > 0 is a left turn.
Orient(a, b, c) == (b.x - a.x) * (c.y - a.y) - (b.y - a.y) * (c.x - a.x)

\* Some three points of the sequence are not on one line.  The first point
\* may be taken as one of the three: if it is on a line with every two
\* others, all are on one line.
NonCollinear(pts) ==
    \E j, k \in DOMAIN pts : Orient(pts[1], pts[j], pts[k]) # 0

\* p lies on the segment from a to b and is neither end.
StrictlyBetween(a, b, p) ==
    /\ p # a /\ p # b
    /\ Orient(a, b, p) = 0
    /\ Min2(a.x, b.x) <= p.x /\ p.x <= Max2(a.x, b.x)
    /\ Min2(a.y, b.y) <= p.y /\ p.y <= Max2(a.y, b.y)

\* p lies strictly inside some triangle of points of T: strictly left of
\* the three sides of a counter-clockwise triangle a, b, c.
StrictlyInside(T, p) ==
    \E a, b \in T :
        /\ Orient(a, b, p) > 0
        /\ \E c \in T : Orient(b, c, p) > 0 /\ Orient(c, a, p) > 0

\* The corners of the convex hull of S: the points of S that are not in the
\* convex hull of the others, that is neither inside a segment nor inside a
\* triangle of other points.
ExtremePoints(S) ==
    {p \in S :
        LET T == S \ {p}
        IN  /\ ~ \E a, b \in T : StrictlyBetween(a, b, p)
            /\ ~ StrictlyInside(T, p)}

NoRepeat(h) == \A i, j \in DOMAIN h : i # j => h[i] # h[j]

\* Every cyclically consecutive triple of h turns strictly left.
StrictlyConvex(h) ==
    /\ Len(h) >= 3
    /\ \A i \in DOMAIN h :
          Orient(h[i], h[(i % Len(h)) + 1], h[((i + 1) % Len(h)) + 1]) > 0

\* No point of pts is to the right of an edge of the polygon h.
Encloses(h, pts) ==
    \A i \in DOMAIN h : \A k \in DOMAIN pts :
        Orient(h[i], h[(i % Len(h)) + 1], pts[k]) >= 0

\* The coordinates of graham_scan's returned list.
g_vertices == CoordsOf(points, g_result)

GrahamReturned == pc \in {"j_start", "j_wrap", "j_return", "j_diverged", "done"}

BothReturned == pc = "done"

-----------------------------------------------------------------------------
(* Claims *)

\* C1: on an input with at least 3 non-collinear points both builders return
\* at least 3 vertices, and the same set of vertex coordinates.
BuildersAgree ==
    (BothReturned /\ NonCollinear(points)) =>
        /\ Len(g_result) >= 3
        /\ Len(j_result) >= 3
        /\ Range(g_vertices) = Range(j_result)

\* C2: both builders terminate on every finite input, duplicates included:
\* no call gets to where the wrapping loop has selected an index twice
\* without selecting the start vertex, from where it never exits.
BuildersTerminate == pc # "j_diverged"

\* C3: jarvis_march returns the empty list for every input of fewer than 3
\* points and for every input whose points are all on one line.
JarvisDegenerateEmpty ==
    (BothReturned /\ (Len(points) < 3 \/ ~NonCollinear(points))) =>
        j_result = <<>>

\* C4: graham_scan returns the empty list for every input of fewer than 3
\* points, of identical points, or of points that are all on one line.
GrahamDegenerateEmpty ==
    (GrahamReturned /\ (Len(points) < 3 \/ ~NonCollinear(points))) =>
        g_result = <<>>

\* A line of at least three different points, one of them repeated, went
\* through the sweep and graham_scan returned the empty list.
GrahamDegenerateWitness ==
    /\ GrahamReturned
    /\ ~NonCollinear(points)
    /\ Cardinality(Range(points)) >= 3
    /\ Cardinality(Range(points)) < Len(points)
    /\ g_pos > Len(points_list)
    /\ Len(g_hull) = 2
    /\ g_result = <<>>

\* C5: no two entries of a returned hull have equal coordinates; an input of
\* 3 non-collinear points, some repeated, yields exactly 3 vertices.
NoDuplicateVertices ==
    BothReturned =>
        /\ NoRepeat(g_vertices)
        /\ NoRepeat(j_result)
        /\ (Cardinality(Range(points)) = 3 /\ NonCollinear(points)) =>
               (Len(g_result) = 3 /\ Len(j_result) = 3)

\* C6: on an input with at least 3 non-collinear points the vertices that
\* graham_scan returns are exactly the corners of the convex hull: every
\* corner, and no point inside the hull or inside a hull edge.
GrahamExactlyExtreme ==
    (GrahamReturned /\ NonCollinear(points)) =>
        Range(g_vertices) = ExtremePoints(Range(points))

\* graham_scan returned a hull and left out an input point that lies inside
\* a hull edge, between two returned vertices.
GrahamExtremeWitness ==
    /\ GrahamReturned
    /\ Len(g_result) >= 3
    /\ \E p \in Range(points) \ Range(g_vertices) :
          \E a, b \in Range(g_vertices) : StrictlyBetween(a, b, p)

\* C7: every non-empty returned hull has at least 3 vertices and turns
\* strictly left at every vertex, cyclically.
HullsStrictlyConvex ==
    BothReturned =>
        /\ (g_result # <<>> => StrictlyConvex(g_vertices))
        /\ (j_result # <<>> => StrictlyConvex(j_result))

\* C8: no input point lies outside a non-empty returned hull: every input
\* point is on or to the left of every edge.
HullsEncloseInput ==
    BothReturned =>
        /\ (g_result # <<>> => Encloses(g_vertices, points))
        /\ (j_result # <<>> => Encloses(j_result, points))

\* C9: each builder returns a hull of the same length and the same vertex
\* set for an input and for a permutation of it.
PermutationInvariant ==
    (BothReturned /\ call = "permuted") =>
        /\ Len(g_result) = Len(first_g)
        /\ Range(g_vertices) = Range(first_g)
        /\ Len(j_result) = Len(first_j)
        /\ Range(j_result) = Range(first_j)

\* C10: a builder that is handed its own non-empty result returns the same
\* set of vertex coordinates.
Idempotent ==
    /\ (GrahamReturned /\ call = "fed_graham") =>
           Range(g_vertices) = Range(first_g)
    /\ (BothReturned /\ call = "fed_jarvis") =>
           Range(j_result) = Range(first_j)

\* C11: neither builder changes the caller's input sequence, and the
\* returned lists hold new Point objects: after the caller changes the
\* coordinates of an input Point, both returned hulls have the coordinates
\* they were returned with.
ResultsAreCopies ==
    /\ (call = "first" /\ pc # "mutated") => points = first_points
    /\ pc = "mutated" =>
           /\ CoordsOf(points, g_result) = first_g
           /\ j_result = first_j

\* C12: in the wrapping loop, whenever the newly selected vertex is
\* collinear with the last two hull vertices and lies beyond the last one,
\* the last hull vertex is overwritten by the new vertex and the hull does
\* not grow.
OverwritesWhenBeyond ==
    [][(/\ pc = "j_wrap"
        /\ j_iter' = j_iter + 1
        /\ Len(j_hull) >= 2
        /\ StrictlyBetween(j_hull[Len(j_hull) - 1], points[current_idx'],
                           Last(j_hull)))
       => (/\ Len(j_hull') = Len(j_hull)
           /\ Last(j_hull') = points[current_idx'])]_vars

\* C13: at the end of every iteration of graham_scan's sweep the stack has
\* at least 2 entries, its bottom entry is the pivot, and every three
\* consecutive entries make a strict left turn.
SweepStackInvariant ==
    (pc = "g_sweep" /\ g_pos > 2) =>
        /\ Len(g_hull) >= 2
        /\ g_hull[1] = min_point
        /\ \A k \in 1..(Len(g_hull) - 2) :
              Orient(points[g_hull[k]], points[g_hull[k + 1]],
                     points[g_hull[k + 2]]) > 0

\* Two iterations are over, no point was skipped, and the stack holds the
\* pivot, the first sorted point and the third: the last iteration popped
\* the second sorted point and then pushed the third.
SweepStackWitness ==
    /\ pc = "g_sweep"
    /\ g_pos = 4
    /\ \A i, j \in 1..3 :
          i # j => consecutive_orientation(points[min_point],
                       points[points_list[i]], points[points_list[j]]) # 0
    /\ g_hull = <<min_point, points_list[1], points_list[3]>>

=============================================================================
